---- MODULE Spec2Model ----
(***************************************************************************)
(* A model of Hardsub-Extract.py: the streamed HTTP download               *)
(* (download_video), the size formatter (format_size) and the extraction   *)
(* dispatcher (run_video_ocr).                                             *)
(*                                                                         *)
(* Python strings are TLA+ strings.  A Python value that may be None is a  *)
(* sequence of length at most one: <<>> is None and <<s>> is the value s.  *)
(* A byte count is a natural number written in base 1024, least            *)
(* significant digit first, so that counts beyond 2^31 stay representable. *)
(***************************************************************************)
EXTENDS Integers, Sequences, FiniteSets, TLC

\* ------------------------------------------------------------------ bounds

\* The longest response body, in chunks, the GET may stream.
MaxChunks == 2
\* The longest elapsed time, in seconds, the progress bar may report.
MaxElapsed == 2
\* The number of base-1024 digits of the byte counts handed to format_size.
MaxDigits == 6

\* ------------------------------------------------------- Python values

None == <<>>
Some(v) == <<v>>
IsNone(o) == o = <<>>
Val(o) == o[1]

\* sub in s
Contains(s, sub) ==
    \E i \in 1..(Len(s) - Len(sub) + 1) : SubSeq(s, i, i + Len(sub) - 1) = sub

\* s.startswith(p)
StartsWith(s, p) == Len(s) >= Len(p) /\ SubSeq(s, 1, Len(p)) = p

\* s.endswith(p)
EndsWith(s, p) == Len(s) >= Len(p) /\ SubSeq(s, Len(s) - Len(p) + 1, Len(s)) = p

CharAt(s, i) == SubSeq(s, i, i)

\* -------------------------------------------------- base-1024 arithmetic

\* The divisor of format_size, and the chunk size of the streamed download.
Kilo == 1024

RECURSIVE ToDigits(_)
ToDigits(n) == IF n < Kilo THEN <<n>> ELSE <<n % Kilo>> \o ToDigits(n \div Kilo)

Digit(ds, i) == IF i >= 1 /\ i <= Len(ds) THEN ds[i] ELSE 0

\* ds * m + carry, for a small m
RECURSIVE MulSmall(_, _, _)
MulSmall(ds, m, carry) ==
    IF ds = <<>>
    THEN IF carry = 0 THEN <<>> ELSE ToDigits(carry)
    ELSE LET v == Head(ds) * m + carry
         IN  <<v % Kilo>> \o MulSmall(Tail(ds), m, v \div Kilo)

\* the quotient and the remainder of ds by a small den
RECURSIVE DivSmall(_, _)
DivSmall(ds, den) ==
    IF ds = <<>>
    THEN [q |-> <<>>, r |-> 0]
    ELSE LET rest == DivSmall(Tail(ds), den)
             cur == rest.r * Kilo + Head(ds)
         IN  [q |-> <<cur \div den>> \o rest.q, r |-> cur % den]

\* A number handed to format_size: the value n / d, n in base 1024.
Number(n, d) == [n |-> n, d |-> d]
IntNumber(i) == Number(ToDigits(i), 1)

\* ------------------------------------------------------------ format_size

Units == <<"B", "KB", "MB", "GB", "TB">>

\* size < 1024.0, size being the number divided k times by 1024.0
Below1024(size, k) ==
    LET q == DivSmall(size.n, size.d).q
    IN  \A i \in (k + 2)..Len(q) : q[i] = 0

\* f"{size:.2f}": the hundredths of the number divided k times by 1024.0,
\* rounded half to even as the float formatting does.
Hundredths(size, k) ==
    LET qr == DivSmall(MulSmall(size.n, 100, 0), size.d)
        h == Digit(qr.q, k + 1) + Kilo * Digit(qr.q, k + 2)
        low == qr.r > 0 \/ \E i \in 1..(k - 1) : Digit(qr.q, i) # 0
        up == IF k = 0
              THEN 2 * qr.r > size.d \/ (2 * qr.r = size.d /\ h % 2 = 1)
              ELSE Digit(qr.q, k) > 512
                   \/ (Digit(qr.q, k) = 512 /\ (low \/ h % 2 = 1))
    IN  IF up THEN h + 1 ELSE h

Fixed2(h) ==
    ToString(h \div 100) \o "."
        \o (IF h % 100 < 10 THEN "0" ELSE "") \o ToString(h % 100)

RECURSIVE format_loop(_, _)
format_loop(size, k) ==
    IF k = Len(Units)
    THEN None
    ELSE IF Below1024(size, k)
         THEN Some(Fixed2(Hundredths(size, k)) \o " " \o Units[k + 1])
         ELSE format_loop(size, k + 1)

format_size(size) == format_loop(size, 0)

\* f"{x}" of a value that may be None
Str(o) == IF IsNone(o) THEN "None" ELSE Val(o)

\* ------------------------------------------------------- paths (lines 10-14)

\* os.path.join(a, b)
join(a, b) ==
    IF StartsWith(b, "/") THEN b
    ELSE IF a = "" \/ EndsWith(a, "/") THEN a \o b
    ELSE a \o "/" \o b

DATA_DIR_of(home) == join(home, "hardsub_extract_data")
DEMO_VIDEO_PATH_of(home) == join(DATA_DIR_of(home), "demo.mp4")
DOWNLOAD_VIDEO_PATH_of(home) == join(DATA_DIR_of(home), "video.mp4")

\* ------------------------------------------------- download_video helpers

Letters ==
    {"a", "b", "c", "d", "e", "f", "g", "h", "i", "j", "k", "l", "m", "n",
     "o", "p", "q", "r", "s", "t", "u", "v", "w", "x", "y", "z"}
DigitChars == <<"0", "1", "2", "3", "4", "5", "6", "7", "8", "9">>
IsDigit(c) == \E i \in 1..10 : DigitChars[i] = c
DigitOf(c) == (CHOOSE i \in 1..10 : DigitChars[i] = c) - 1
SchemeChars == Letters \cup {DigitChars[i] : i \in 1..10} \cup {"+", "-", "."}

\* urllib.parse.urlparse(url).scheme: the text before the first ":" when it
\* starts with a letter and holds scheme characters only, else "".
urlparse_scheme(url) ==
    LET colons == {i \in 1..Len(url) : CharAt(url, i) = ":"}
        i == CHOOSE j \in colons : \A k \in colons : j <= k
    IN  IF colons # {} /\ i > 1 /\ CharAt(url, 1) \in Letters
           /\ \A k \in 1..(i - 1) : CharAt(url, k) \in SchemeChars
        THEN SubSeq(url, 1, i - 1)
        ELSE ""

\* line 26: the URL passes validation
url_no_scheme_check(url) == url # ""
valid_url(url) == url # "" /\ urlparse_scheme(url) # ""

\* int(text) of a header value: None when int() raises ValueError
RECURSIVE DecimalValue(_)
DecimalValue(s) ==
    IF s = "" THEN 0
    ELSE 10 * DecimalValue(SubSeq(s, 1, Len(s) - 1)) + DigitOf(CharAt(s, Len(s)))

ParseInt(s) ==
    IF s # "" /\ \A i \in 1..Len(s) : IsDigit(CharAt(s, i))
    THEN Some(DecimalValue(s))
    ELSE None

\* line 63: the except clause of download_video
download_error(e) == "Error downloading video: " \o e

\* line 56: file_size / elapsed if elapsed > 0 else 0
speed_of(bytes, secs) ==
    IF secs > 0 THEN Number(ToDigits(bytes), secs) ELSE IntNumber(0)

\* lines 58-60
success_message(path, final, speed) ==
    "Video successfully downloaded to " \o path \o "\n"
        \o "Total size: " \o Str(format_size(IntNumber(final))) \o "\n"
        \o "Average speed: " \o Str(format_size(speed)) \o "/s"

\* one chunk of a response body: the c-th chunk of body b, n bytes long
Chunk(b, c, n) == [b |-> b, i |-> c, n |-> n]

\* The length of the last chunk of a body: the stream ends inside a chunk.
LastChunk == 100

\* A body of c chunks: full chunks of 1024 bytes, then a shorter last one.
BodyOf(b, c) == [i \in 1..c |-> Chunk(b, i, IF i < c THEN Kilo ELSE LastChunk)]

BodyIds == {"A", "B"}
Bodies == {BodyOf(b, c) : b \in BodyIds, c \in 0..MaxChunks}

\* The bytes of a file, cut where a chunk of a body may start or end: piece
\* 2i-1 is the first LastChunk bytes of the i-th kilobyte, piece 2i the rest
\* of it.  A piece holds the bytes some body has at piece `at`, or zeros.
Piece(b, j) == [b |-> b, at |-> j]
Zeros == [b |-> "zero", at |-> 0]
PieceBytes(j) == IF j % 2 = 1 THEN LastChunk ELSE Kilo - LastChunk

\* the pieces a chunk is made of
ChunkPieces(c) ==
    IF c.n = Kilo
    THEN <<Piece(c.b, 2 * c.i - 1), Piece(c.b, 2 * c.i)>>
    ELSE <<Piece(c.b, 2 * c.i - 1)>>

RECURSIVE BodyPieces(_)
BodyPieces(body) ==
    IF body = <<>> THEN <<>> ELSE ChunkPieces(Head(body)) \o BodyPieces(Tail(body))

\* os.path.getsize of a file made of these pieces
RECURSIVE ByteLen(_)
ByteLen(pieces) ==
    IF pieces = <<>> THEN 0
    ELSE ByteLen(SubSeq(pieces, 1, Len(pieces) - 1)) + PieceBytes(Len(pieces))

\* line 47: open(DOWNLOAD_VIDEO_PATH, 'wb') creates the file or truncates it
open_keep(file) == IF IsNone(file) THEN Some(<<>>) ELSE file
open_wb(file) == Some(<<>>)

\* line 49: f.write(data) at the handle's own position pos (in pieces); a
\* position beyond the end of the file leaves a gap of zeros.
write_at(file, pos, pieces) ==
    LET gap == [j \in 1..(pos - Len(file)) |-> Zeros]
        padded == file \o gap
    IN  SubSeq(padded, 1, pos) \o pieces
            \o SubSeq(padded, pos + Len(pieces) + 1, Len(padded))

\* --------------------------------------------------- run_video_ocr helpers

\* line 140: the except clause of run_video_ocr
Returned(s) == [kind |-> "return", value |-> s]
Raised(e) == [kind |-> "raise", value |-> e]
NoResult == [kind |-> "none", value |-> ""]
except_reraise(e) == Raised(e)
except_Exception(e) == Returned("Error: " \o e)

\* lines 98-113: the ValueError the source dispatch raises, or None
validation_skip_url(source, vurl, input, demo) ==
    IF source = "Demo Video"
    THEN IF ~demo
         THEN Some("Demo video not found. Please place a demo.mp4 file in the data directory.")
         ELSE None
    ELSE IF source = "URL"
    THEN None
    ELSE IF IsNone(input) THEN Some("Please upload a video file") ELSE None
validation_error(source, vurl, input, demo) ==
    IF source = "Demo Video"
    THEN IF ~demo
         THEN Some("Demo video not found. Please place a demo.mp4 file in the data directory.")
         ELSE None
    ELSE IF source = "URL"
    THEN IF vurl = "" THEN Some("Please provide a video URL") ELSE None
    ELSE IF IsNone(input) THEN Some("Please upload a video file") ELSE None

\* line 107: "Error" in download_result
is_error_prefix(text) == StartsWith(text, "Error: ")
is_error(text) == Contains(text, "Error")

\* lines 116-117
coerce(name) == IF ~EndsWith(name, ".srt") THEN name \o ".srt" ELSE name

\* ------------------------------------------------------------------ state

VARIABLES
    HOME_DIR,          \* os.path.expanduser('~'), fixed at import
    demo_exists,       \* os.path.exists(DEMO_VIDEO_PATH)
    video_file,        \* the file at DOWNLOAD_VIDEO_PATH: None, or its chunks
    pc,                \* where the running call stands
    caller,            \* who called download_video
    video_source, video_url, input_video, output_file_name,
    url,               \* download_video's argument
    file_size,         \* line 31
    stream,            \* response.iter_content: the chunks still to arrive
    elapsed,           \* progress.format_dict["elapsed"]
    final_size,        \* line 55
    download_speed,    \* line 56
    download_result,   \* download_video's return value
    video_path, output_path,
    extraction,        \* save_subtitles_to_file: "no", "returned" or "raised"
    result,            \* run_video_ocr's outcome
    calls,             \* the external calls of the running dispatch, in order
    offset,            \* the position of the open file handle f, in pieces
    file_before,       \* video_file when download_video was entered
    writers,           \* concurrent download_video invocations at lines 47-50
    size,              \* format_size: its argument
    formatted          \* format_size: its return value, Pending before the call

envVars == <<HOME_DIR, demo_exists>>
argVars == <<video_source, video_url, input_video, output_file_name>>
dlVars == <<url, file_size, stream, offset, elapsed, final_size,
            download_speed, download_result, file_before>>
runVars == <<video_path, output_path, extraction, result>>
fmtVars == <<size, formatted>>
vars == <<envVars, video_file, pc, caller, argVars, dlVars, runVars, calls,
          writers, fmtVars>>

DATA_DIR == DATA_DIR_of(HOME_DIR)
DEMO_VIDEO_PATH == DEMO_VIDEO_PATH_of(HOME_DIR)
DOWNLOAD_VIDEO_PATH == DOWNLOAD_VIDEO_PATH_of(HOME_DIR)

Pending == <<"pending", "pending">>

\* ------------------------------------------------------------ the inputs

Homes == {"/root", "/home/Error"}
Sources == {"Demo Video", "URL", "Upload Video"}
URLs == {"", "v.mp4", "http://h/v", "//h/v", "/p:q"}
Uploads == {None, Some("/tmp/up.mp4")}
OutputNames == {"sub.srt", "out", "", "/o"}
ContentLengths == {None, Some("0"), Some("1124"), Some("abc")}

\* the locals of a call that has not run
IdleCall ==
    /\ pc = "idle"
    /\ caller = "none"
    /\ video_source = "" /\ video_url = "" /\ input_video = None
    /\ output_file_name = ""
    /\ url = "" /\ file_size = 0 /\ stream = <<>> /\ offset = 0
    /\ elapsed = 0 /\ final_size = 0 /\ download_speed = IntNumber(0)
    /\ download_result = None /\ file_before = None
    /\ video_path = None /\ output_path = None
    /\ extraction = "no" /\ result = NoResult
    /\ calls = <<>>

NoWriters == <<>>
NoFormat == size = IntNumber(0) /\ formatted = Pending

Init ==
    /\ HOME_DIR \in Homes
    /\ demo_exists \in BOOLEAN
    /\ video_file = None
    /\ IdleCall
    /\ writers = NoWriters
    /\ NoFormat

\* ------------------------------------------------------------ run_video_ocr

\* lines 91-113: the call, up to the resolved video path or the download
Submit(source, vurl, input, name) ==
    /\ pc = "idle"
    /\ video_source' = source /\ video_url' = vurl
    /\ input_video' = input /\ output_file_name' = name
    /\ LET err == validation_error(source, vurl, input, demo_exists)
       IN  IF ~IsNone(err)
           THEN /\ result' = except_Exception(Val(err))
                /\ pc' = "done"
                /\ UNCHANGED <<caller, url, file_before, calls, video_path>>
           ELSE IF source = "URL"
           THEN /\ pc' = "validate"
                /\ caller' = "run_video_ocr"
                /\ url' = vurl
                /\ file_before' = video_file
                /\ calls' = <<"download_video">>
                /\ UNCHANGED <<result, video_path>>
           ELSE /\ video_path' = Some(IF source = "Demo Video"
                                      THEN DEMO_VIDEO_PATH ELSE Val(input))
                /\ pc' = "extract"
                /\ UNCHANGED <<caller, url, file_before, calls, result>>
    /\ UNCHANGED <<envVars, video_file, file_size, stream, offset, elapsed,
                   final_size, download_speed, download_result, output_path,
                   extraction, writers, fmtVars>>

\* lines 107-109: back from download_video
DownloadReturn ==
    /\ pc = "returned"
    /\ IF caller = "direct"
       THEN pc' = "done" /\ UNCHANGED <<result, video_path>>
       ELSE IF is_error(Val(download_result))
       THEN /\ result' = except_Exception(Val(download_result))
            /\ pc' = "done"
            /\ UNCHANGED video_path
       ELSE /\ video_path' = Some(DOWNLOAD_VIDEO_PATH)
            /\ pc' = "extract"
            /\ UNCHANGED result
    /\ UNCHANGED <<envVars, video_file, caller, argVars, dlVars, output_path,
                   extraction, calls, writers, fmtVars>>

\* lines 115-140: the output path, the extraction routine and the message
Extract(raises) ==
    /\ pc = "extract"
    /\ LET path == join(DATA_DIR, coerce(output_file_name))
       IN  /\ output_path' = Some(path)
           /\ calls' = Append(calls, "save_subtitles_to_file")
           /\ extraction' = IF raises THEN "raised" ELSE "returned"
           /\ result' = IF raises
                        THEN except_Exception("could not open video")
                        ELSE Returned("Subtitle extraction completed! File saved to "
                                      \o path)
    /\ pc' = "done"
    /\ UNCHANGED <<envVars, video_file, caller, argVars, dlVars, video_path,
                   writers, fmtVars>>

\* the UI takes the next event: the locals of the finished call are gone
Reset ==
    /\ pc = "done"
    /\ pc' = "idle"
    /\ caller' = "none"
    /\ video_source' = "" /\ video_url' = "" /\ input_video' = None
    /\ output_file_name' = ""
    /\ url' = "" /\ file_size' = 0 /\ stream' = <<>> /\ offset' = 0
    /\ elapsed' = 0 /\ final_size' = 0 /\ download_speed' = IntNumber(0)
    /\ download_result' = None /\ file_before' = None
    /\ video_path' = None /\ output_path' = None
    /\ extraction' = "no" /\ result' = NoResult
    /\ calls' = <<>>
    /\ UNCHANGED <<envVars, video_file, writers, fmtVars>>

\* ----------------------------------------------------------- download_video

\* download_video called on its own
CallDownload(u) ==
    /\ pc = "idle"
    /\ pc' = "validate"
    /\ caller' = "direct"
    /\ url' = u
    /\ file_before' = video_file
    /\ calls' = <<"download_video">>
    /\ UNCHANGED <<envVars, video_file, argVars, file_size, stream, offset,
                   elapsed, final_size, download_speed, download_result,
                   runVars, writers, fmtVars>>

\* the except clause, line 63: download_video returns the error string
Fail(e) ==
    /\ download_result' = Some(download_error(e))
    /\ pc' = "returned"

\* lines 25-27
Validate ==
    /\ pc = "validate"
    /\ IF valid_url(url)
       THEN pc' = "head" /\ UNCHANGED download_result
       ELSE Fail("Please provide a valid URL")
    /\ UNCHANGED <<envVars, video_file, caller, argVars, url, file_size, stream,
                   offset, elapsed, final_size, download_speed, file_before,
                   runVars, calls, writers, fmtVars>>

\* lines 29-31: the HEAD request; it fails, or answers with a content-length
Head_(ok, length) ==
    /\ pc = "head"
    /\ calls' = Append(calls, "HEAD")
    /\ LET parsed == IF IsNone(length) THEN Some(0) ELSE ParseInt(Val(length))
       IN  IF ~ok
           THEN Fail("Connection refused") /\ UNCHANGED file_size
           ELSE IF IsNone(parsed)
           THEN /\ Fail("invalid literal for int() with base 10: '"
                        \o Val(length) \o "'")
                /\ UNCHANGED file_size
           ELSE /\ file_size' = Val(parsed)
                /\ pc' = "get"
                /\ UNCHANGED download_result
    /\ UNCHANGED <<envVars, video_file, caller, argVars, url, stream, offset,
                   elapsed, final_size, download_speed, file_before, runVars,
                   writers, fmtVars>>

\* lines 33-35: the GET request; it fails, answers an error status, or
\* answers with a body to stream
Get(outcome, body) ==
    /\ pc = "get"
    /\ calls' = Append(calls, "GET")
    /\ IF outcome = "refused"
       THEN Fail("Connection refused") /\ UNCHANGED stream
       ELSE IF outcome = "status"
       THEN Fail("404 Client Error: Not Found for url: " \o url) /\ UNCHANGED stream
       ELSE /\ stream' = body
            /\ pc' = "open"
            /\ UNCHANGED download_result
    /\ UNCHANGED <<envVars, video_file, caller, argVars, url, file_size, offset,
                   elapsed, final_size, download_speed, file_before, runVars,
                   writers, fmtVars>>

\* line 47: open the destination for writing
Open(ok) ==
    /\ pc = "open"
    /\ calls' = Append(calls, "open")
    /\ IF ok
       THEN /\ video_file' = open_wb(video_file)
            /\ offset' = 0
            /\ pc' = "stream"
            /\ UNCHANGED download_result
       ELSE /\ Fail("[Errno 13] Permission denied")
            /\ UNCHANGED <<video_file, offset>>
    /\ UNCHANGED <<envVars, caller, argVars, url, file_size, stream, elapsed,
                   final_size, download_speed, file_before, runVars, writers,
                   fmtVars>>

\* lines 48-50: the next chunk arrives and is written
WriteChunk ==
    /\ pc = "stream"
    /\ stream # <<>>
    /\ LET pieces == ChunkPieces(Head(stream))
       IN  /\ video_file' = Some(write_at(Val(video_file), offset, pieces))
           /\ offset' = offset + Len(pieces)
    /\ stream' = Tail(stream)
    /\ UNCHANGED <<envVars, pc, caller, argVars, url, file_size, elapsed,
                   final_size, download_speed, download_result, file_before,
                   runVars, calls, writers, fmtVars>>

\* line 48: the connection breaks while the body is streamed
StreamError ==
    /\ pc = "stream"
    /\ Fail("Connection broken")
    /\ UNCHANGED <<envVars, video_file, caller, argVars, url, file_size, stream,
                   offset, elapsed, final_size, download_speed, file_before,
                   runVars, calls, writers, fmtVars>>

\* lines 52-60: the body is exhausted; sizes, speed and the message
Finish(secs) ==
    /\ pc = "stream"
    /\ stream = <<>>
    /\ elapsed' = secs
    /\ final_size' = ByteLen(Val(video_file))
    /\ download_speed' = speed_of(file_size, secs)
    /\ download_result' = Some(success_message(DOWNLOAD_VIDEO_PATH, final_size',
                                               download_speed'))
    /\ calls' = Append(calls, "progress.close")
    /\ pc' = "returned"
    /\ UNCHANGED <<envVars, video_file, caller, argVars, url, file_size, stream,
                   offset, file_before, runVars, writers, fmtVars>>

Next ==
    \/ \E source \in Sources, vurl \in URLs, input \in Uploads, name \in OutputNames :
          Submit(source, vurl, input, name)
    \/ \E u \in URLs : CallDownload(u)
    \/ Validate
    \/ \E ok \in BOOLEAN, length \in ContentLengths : Head_(ok, length)
    \/ \E outcome \in {"refused", "status", "ok"}, body \in Bodies : Get(outcome, body)
    \/ \E ok \in BOOLEAN : Open(ok)
    \/ WriteChunk
    \/ StreamError
    \/ \E secs \in 0..MaxElapsed : Finish(secs)
    \/ DownloadReturn
    \/ \E raises \in BOOLEAN : Extract(raises)
    \/ Reset

Spec == Init /\ [][Next]_vars

\* ------------------------------------------------ properties of a dispatch

Called(op) == \E i \in 1..Len(calls) : calls[i] = op
TimesCalled(op) == Cardinality({i \in 1..Len(calls) : calls[i] = op})

\* run_video_ocr is running or has run
Dispatched == video_source \in Sources

\* the input validation of lines 98-113 fails
ValidationFails ==
    \/ video_source = "Demo Video" /\ ~demo_exists
    \/ video_source = "URL" /\ video_url = ""
    \/ video_source = "Upload Video" /\ IsNone(input_video)

\* download_video has returned
DownloadReturned == Called("download_video") /\ pc \in {"returned", "extract", "done"}

\* download_video ran to line 58: every chunk was written
DownloadSucceeded == DownloadReturned /\ Called("progress.close")
DownloadFailed == DownloadReturned /\ ~Called("progress.close")

IsErrorResult == result.kind = "return" /\ StartsWith(result.value, "Error: ")

\* C1: run_video_ocr never lets an exception escape: it returns a string,
\* which begins with "Error: " whenever a step (validation, download,
\* extraction) failed, and which is the "Subtitle extraction completed!"
\* message only when the extraction routine was called and returned.
C1_NoExceptionEscapes ==
    /\ result.kind # "raise"
    /\ (Dispatched /\ pc = "done") =>
          /\ result.kind = "return"
          /\ (ValidationFails \/ DownloadFailed \/ extraction = "raised")
                => StartsWith(result.value, "Error: ")
          /\ StartsWith(result.value, "Subtitle extraction completed!")
                => extraction = "returned" /\ Called("save_subtitles_to_file")

C1_Witness ==
    /\ Dispatched /\ pc = "done"
    /\ extraction = "raised"
    /\ IsErrorResult

\* C2: in a dispatch with source = URL whose download fails, the extraction
\* routine is never called, and the returned error string contains the
\* downloader's failure message.
C2_FailedDownloadAborts ==
    (Dispatched /\ video_source = "URL" /\ DownloadFailed) =>
        /\ pc \in {"returned", "done"}
        /\ ~Called("save_subtitles_to_file")
        /\ extraction = "no"
        /\ pc = "done" =>
              /\ IsErrorResult
              /\ Contains(result.value, Val(download_result))

C2_Witness ==
    /\ Dispatched /\ video_source = "URL" /\ DownloadFailed
    /\ pc = "done"
    /\ Called("GET")

\* C3: for a URL that is empty or parses with an empty scheme, download_video
\* returns an error message without issuing the HEAD or the GET request and
\* without opening the destination file.
C3_InvalidUrlNoNetwork ==
    (Called("download_video") /\ (url = "" \/ urlparse_scheme(url) = "")) =>
        /\ ~Called("HEAD") /\ ~Called("GET") /\ ~Called("open")
        /\ video_file = file_before
        /\ pc # "validate" =>
              /\ ~IsNone(download_result)
              /\ StartsWith(Val(download_result), "Error downloading video: ")

C3_Witness ==
    /\ Called("download_video")
    /\ url # "" /\ urlparse_scheme(url) = ""
    /\ pc = "done"
    /\ ~IsNone(download_result)

\* C4: a dispatch whose input validation fails yields an error result and
\* performs neither a download nor a call to the extraction routine.
C4_ValidationFailureDoesNothing ==
    (Dispatched /\ ValidationFails) =>
        /\ pc = "done"
        /\ IsErrorResult
        /\ calls = <<>>
        /\ extraction = "no"
        /\ IsNone(download_result)

C4_Witness ==
    /\ Dispatched /\ pc = "done"
    /\ video_source = "URL" /\ video_url = ""
    /\ IsErrorResult

\* C5: the output name gets ".srt" appended once when it does not end with
\* it and is unchanged otherwise, coercing twice changes nothing, and the
\* path handed to the extraction routine is always the data directory
\* followed by the coerced name.
C5_OutputPath ==
    extraction # "no" =>
        LET name == output_file_name
            coerced == IF EndsWith(name, ".srt") THEN name ELSE name \o ".srt"
        IN  /\ coerce(name) = coerced
            /\ coerce(coerced) = coerced
            /\ output_path = Some(DATA_DIR \o "/" \o coerced)

\* C7: for a successful download the average speed is the final size of the
\* file divided by the elapsed seconds, and 0 when no time elapsed.
C7_SpeedFromFinalSize ==
    (DownloadSucceeded /\ pc = "returned") =>
        download_speed = IF elapsed > 0
                         THEN Number(ToDigits(final_size), elapsed)
                         ELSE IntNumber(0)

\* C8: in a dispatch with source = URL and a non-empty URL, a download that
\* succeeds never aborts the dispatch: the extraction routine is called
\* exactly once, with the download destination as the video path.
C8_SuccessfulDownloadProceeds ==
    (Dispatched /\ video_source = "URL" /\ DownloadSucceeded /\ pc = "done") =>
        /\ TimesCalled("save_subtitles_to_file") = 1
        /\ extraction # "no"
        /\ video_path = Some(DOWNLOAD_VIDEO_PATH)

\* C10: whenever download_video returns an error string, the file at the
\* download destination has the content it had before the call.
C10_FailureLeavesFileAlone ==
    DownloadFailed => video_file = file_before

\* --------------------------------------------- format_size on byte counts

DigitValues == {0, 1, 512, 1023}

RECURSIVE DigitSeqs(_)
DigitSeqs(len) ==
    IF len = 0 THEN {<<>>}
    ELSE {<<d>> \o t : d \in DigitValues, t \in DigitSeqs(len - 1)}

\* the byte counts: every digit sequence without a leading zero digit
ByteCounts ==
    UNION {{ds \in DigitSeqs(len) : len = 1 \/ ds[len] # 0} : len \in 1..MaxDigits}

InitFmt ==
    /\ HOME_DIR = "/root"
    /\ demo_exists = FALSE
    /\ video_file = None
    /\ IdleCall
    /\ writers = NoWriters
    /\ size \in {Number(ds, 1) : ds \in ByteCounts}
    /\ formatted = Pending

Format ==
    /\ formatted = Pending
    /\ formatted' = format_size(size)
    /\ UNCHANGED <<envVars, video_file, pc, caller, argVars, dlVars, runVars,
                   calls, writers, size>>

NextFmt == Format

SpecFmt == InitFmt /\ [][NextFmt]_vars

\* C6: for every non-negative byte count format_size returns a string that
\* renders the count in the first of the units B, KB, MB, GB, TB under which
\* the count, divided by the matching power of 1024, is below 1024.  A count
\* without leading zero digits has as many base-1024 digits as divisions by
\* 1024 it takes, plus one.
C6_FormatSizeUnit ==
    formatted # Pending =>
        /\ ~IsNone(formatted)
        /\ EndsWith(Val(formatted), " " \o Units[Len(size.n)])

\* ------------------------------- two download_video invocations at once

\* Two UI events run download_video at the same time; each has its response
\* and stands before line 47.  The file object is buffered: f.write hands the
\* chunk to the handle's buffer, which reaches the file when the buffer
\* flushes (its size depends on the platform) and at the latest when the
\* with block closes the file.
Threads == {1, 2}
BodyIdOf(t) == IF t = 1 THEN "A" ELSE "B"

Writer(body) ==
    [pc |-> "open", body |-> body, stream |-> body, buffer |-> <<>>, offset |-> 0]

Event(t, op) == [t |-> t, op |-> op]

InitConc ==
    /\ HOME_DIR = "/root"
    /\ demo_exists = FALSE
    /\ video_file = None
    /\ IdleCall
    /\ NoFormat
    /\ \E c1 \in 0..MaxChunks, c2 \in 0..MaxChunks :
          writers = [t \in Threads |->
                        Writer(BodyOf(BodyIdOf(t), IF t = 1 THEN c1 ELSE c2))]

concFrame ==
    UNCHANGED <<envVars, pc, caller, argVars, dlVars, runVars, fmtVars>>

\* line 47
ConcOpen(t) ==
    /\ writers[t].pc = "open"
    /\ video_file' = open_wb(video_file)
    /\ writers' = [writers EXCEPT ![t].pc = "stream", ![t].offset = 0]
    /\ calls' = Append(calls, Event(t, "open"))
    /\ concFrame

\* lines 48-49: the next chunk goes to the handle's buffer
ConcWrite(t) ==
    /\ writers[t].pc = "stream"
    /\ writers[t].stream # <<>>
    /\ writers' = [writers EXCEPT
                     ![t].buffer = @ \o ChunkPieces(Head(writers[t].stream)),
                     ![t].stream = Tail(@)]
    /\ UNCHANGED <<video_file, calls>>
    /\ concFrame

\* the buffer reaches the file, at the handle's own position
ConcFlush(t) ==
    /\ writers[t].pc = "stream"
    /\ writers[t].buffer # <<>>
    /\ video_file' = Some(write_at(Val(video_file), writers[t].offset,
                                   writers[t].buffer))
    /\ writers' = [writers EXCEPT
                     ![t].offset = @ + Len(writers[t].buffer),
                     ![t].buffer = <<>>]
    /\ calls' = Append(calls, Event(t, "write"))
    /\ concFrame

\* the end of the with block, line 50: the file is closed, its buffer empty
ConcClose(t) ==
    /\ writers[t].pc = "stream"
    /\ writers[t].stream = <<>>
    /\ writers[t].buffer = <<>>
    /\ writers' = [writers EXCEPT ![t].pc = "done"]
    /\ calls' = Append(calls, Event(t, "close"))
    /\ UNCHANGED video_file
    /\ concFrame

NextConc ==
    \E t \in Threads :
        ConcOpen(t) \/ ConcWrite(t) \/ ConcFlush(t) \/ ConcClose(t)

SpecConc == InitConc /\ [][NextConc]_vars

BothDone == writers # NoWriters /\ \A t \in Threads : writers[t].pc = "done"

IndexOf(t, op) == CHOOSE i \in 1..Len(calls) : calls[i] = Event(t, op)

\* the invocation that opened the destination last
LastOpener == CHOOSE t \in Threads : \A u \in Threads : IndexOf(u, "open") <= IndexOf(t, "open")

\* the other invocation wrote nothing after that open
OtherQuiet ==
    \A i \in 1..Len(calls) :
        (calls[i].op = "write" /\ calls[i].t # LastOpener)
            => i < IndexOf(LastOpener, "open")

\* C9 as stated: after two concurrent downloads the destination holds the
\* complete content of one of the two, never a mixture.
C9_LastWriterWins ==
    BothDone =>
        \E t \in Threads : video_file = Some(BodyPieces(writers[t].body))

\* C9 as amended: after two concurrent downloads every position of the
\* destination holds the bytes one of the two downloads has at that position,
\* or the zeros of a gap; the file is the complete content of the download
\* that opened it last when the other download wrote nothing after that open.
C9_PositionWise ==
    BothDone =>
        /\ \A j \in 1..Len(Val(video_file)) :
              Val(video_file)[j] \in {Piece(BodyIdOf(t), j) : t \in Threads} \cup {Zeros}
        /\ OtherQuiet => video_file = Some(BodyPieces(writers[LastOpener].body))

\* both files were open at once, and the last opener's content survives
C9_Witness ==
    /\ BothDone
    /\ OtherQuiet
    /\ \A t \in Threads : writers[t].body # <<>>
    /\ \E t \in Threads :
          /\ t # LastOpener
          /\ IndexOf(t, "close") > IndexOf(LastOpener, "open")
          /\ \E i \in 1..Len(calls) : calls[i] = Event(t, "write")
    /\ video_file = Some(BodyPieces(writers[LastOpener].body))

====
